---- MODULE Spec2Model ----
(***************************************************************************)
(* Model of the password generator application:                            *)
(*   - BruteForceSimulator (React component): simulation / stats /         *)
(*     password / graphData state, the animation effect and its handlers;  *)
(*   - passwordUtils: generatePassword and generateWordBasedPassword,      *)
(*     with cryptoUtils' getRandomNumber(s);                               *)
(*   - PasswordGenerator (React component): the password field, its        *)
(*     strength report, the password history, the favorites and their      *)
(*     copies in localStorage.                                             *)
(*                                                                         *)
(* Numbers.  JavaScript numbers that hold counts (attempts, search space,  *)
(* hashing speed) exceed 32 bits (26^8 > 2^31), so they are kept as        *)
(* arbitrary-precision naturals: little-endian sequences of base-1000      *)
(* digits without leading zero digits (0 is <<>>).  Quotients that the     *)
(* code leaves fractional (progress, estimates, energy) are kept as exact  *)
(* fractions [num, den] (den = 0 is NaN or Infinity).  Times are whole     *)
(* milliseconds (Date.now()); stats.timeElapsed is held in milliseconds    *)
(* and stands for that many thousandths of a second.  Binary               *)
(* floating-point rounding of the doubles is not modelled.                 *)
(***************************************************************************)
EXTENDS Integers, Sequences, FiniteSets, TLC

VARIABLES simulation, stats, password, graphData, closure, rafPending,
          now, tickCount, lastOp, sampleLog,
          options, call,
          pgPassword, strength, oracleCalls,
          passwordHistory, favorites, localStorage

simVars == <<simulation, stats, password, graphData, closure, rafPending,
             now, tickCount, lastOp, sampleLog>>
genVars == <<options, call>>
histVars == <<passwordHistory, favorites, localStorage>>
appVars == <<pgPassword, strength, oracleCalls, passwordHistory, favorites, localStorage>>
vars == <<simulation, stats, password, graphData, closure, rafPending,
          now, tickCount, lastOp, sampleLog, options, call,
          pgPassword, strength, oracleCalls,
          passwordHistory, favorites, localStorage>>

----------------------------------------------------------------------------
(* Bounds of the model *)

\* wall-clock instants (ms) the model explores: Date.now() <= MaxNow
MaxNow == 1828
\* animation frames explored in one behaviour
MaxTicks == 2

\* steps by which the wall clock advances between two events (ms)
ClockSteps == {914}
\* positions of the password-length slider that the model moves it to
\* (log2 is rational exactly at the powers of two of the range 4..16)
SliderLengths == {4, 8}
\* attack-method buttons the model presses
MethodChoices == {"sequential", "dictionary"}
\* hardware buttons the model presses
HardwareChoices == {"cpu_basic", "gpu_gaming"}

----------------------------------------------------------------------------
(* Arbitrary-precision naturals *)

BBase == 1000

RECURSIVE BTrim(_)
BTrim(s) ==
  IF s = <<>> THEN <<>>
  ELSE IF s[Len(s)] = 0 THEN BTrim(SubSeq(s, 1, Len(s) - 1))
  ELSE s

RECURSIVE BNat(_)
BNat(n) == IF n = 0 THEN <<>> ELSE <<n % BBase>> \o BNat(n \div BBase)

RECURSIVE BAddC(_, _, _)
BAddC(a, b, c) ==
  IF a = <<>> /\ b = <<>> THEN (IF c = 0 THEN <<>> ELSE <<c>>)
  ELSE LET x == IF a = <<>> THEN 0 ELSE Head(a)
           y == IF b = <<>> THEN 0 ELSE Head(b)
           ta == IF a = <<>> THEN <<>> ELSE Tail(a)
           tb == IF b = <<>> THEN <<>> ELSE Tail(b)
           s == x + y + c
       IN <<s % BBase>> \o BAddC(ta, tb, s \div BBase)

BAdd(a, b) == BAddC(a, b, 0)

\* a - b for a >= b
RECURSIVE BSubC(_, _, _)
BSubC(a, b, c) ==
  IF a = <<>> THEN <<>>
  ELSE LET y == IF b = <<>> THEN 0 ELSE Head(b)
           tb == IF b = <<>> THEN <<>> ELSE Tail(b)
           d == Head(a) - y - c
       IN IF d < 0 THEN <<d + BBase>> \o BSubC(Tail(a), tb, 1)
          ELSE <<d>> \o BSubC(Tail(a), tb, 0)

BSub(a, b) == BTrim(BSubC(a, b, 0))

\* a * k for a machine-sized k (k <= 2000000)
RECURSIVE BMulSmallC(_, _, _)
BMulSmallC(a, k, c) ==
  IF a = <<>> THEN BNat(c)
  ELSE LET s == Head(a) * k + c
       IN <<s % BBase>> \o BMulSmallC(Tail(a), k, s \div BBase)

BMulSmall(a, k) == IF k = 0 THEN <<>> ELSE BMulSmallC(a, k, 0)

RECURSIVE BMul(_, _)
BMul(a, b) ==
  IF a = <<>> \/ b = <<>> THEN <<>>
  ELSE BAdd(BMulSmall(a, Head(b)), BTrim(<<0>> \o BMul(a, Tail(b))))

\* quotient and remainder of a by a machine-sized k (0 < k <= 2000000)
RECURSIVE BDivRem(_, _)
BDivRem(a, k) ==
  IF a = <<>> THEN [q |-> <<>>, r |-> 0]
  ELSE LET hi == BDivRem(Tail(a), k)
           cur == hi.r * BBase + Head(a)
       IN [q |-> BTrim(<<cur \div k>> \o hi.q), r |-> cur % k]

BFloorDiv(a, k) == BDivRem(a, k).q

BCeilDiv(a, k) ==
  LET d == BDivRem(a, k) IN IF d.r = 0 THEN d.q ELSE BAdd(d.q, <<1>>)

\* -1, 0, 1 as a < b, a = b, a > b
RECURSIVE BCmp(_, _)
BCmp(a, b) ==
  IF Len(a) < Len(b) THEN -1
  ELSE IF Len(a) > Len(b) THEN 1
  ELSE IF a = <<>> THEN 0
  ELSE LET c == BCmp(Tail(a), Tail(b))
       IN IF c # 0 THEN c
          ELSE IF Head(a) < Head(b) THEN -1
          ELSE IF Head(a) > Head(b) THEN 1
          ELSE 0

BLess(a, b) == BCmp(a, b) = -1
BLeq(a, b) == BCmp(a, b) # 1
BMin(a, b) == IF BLeq(a, b) THEN a ELSE b

RECURSIVE BPow(_, _)
BPow(b, n) == IF n = 0 THEN <<1>> ELSE BMulSmall(BPow(b, n - 1), b)

(* Fractions: a JavaScript number that is a quotient of two counts.  As in *)
(* JavaScript, 0/0 is NaN and n/0 (n > 0) is Infinity.                     *)
Rat(n, d) == [num |-> n, den |-> d]
Zero == Rat(<<>>, <<1>>)

\* n / d as JavaScript divides two non-negative numbers
JSDiv(n, d) == Rat(n, d)

IsNaN(x) == x.num = <<>> /\ x.den = <<>>
IsRat(x) == x.den # <<>>
RatEq(x, y) == IsRat(x) /\ IsRat(y) /\ BMul(x.num, y.den) = BMul(y.num, x.den)
RatLess(x, y) == IsRat(x) /\ IsRat(y) /\ BLess(BMul(x.num, y.den), BMul(y.num, x.den))
Hundred == Rat(BNat(100), <<1>>)

----------------------------------------------------------------------------
(* BruteForceSimulator: catalogs and pure computations *)

\* baseSpeed in hashes/s; powerCost in thousandths of a kW
HARDWARE_PROFILES ==
  [cpu_basic     |-> [baseSpeed |-> BNat(500000),                  powerCost |-> 65],
   cpu_multi     |-> [baseSpeed |-> BNat(2000000),                 powerCost |-> 125],
   gpu_gaming    |-> [baseSpeed |-> BNat(100000000),               powerCost |-> 250],
   gpu_mining    |-> [baseSpeed |-> BNat(500000000),               powerCost |-> 300],
   cluster_small |-> [baseSpeed |-> BNat(2000000000),              powerCost |-> 800],
   cluster_large |-> [baseSpeed |-> BMulSmall(BNat(10000), 1000000), powerCost |-> 2500]]

\* successRate in hundredths; complexityMultiplier as the fraction num/den
ATTACK_METHODS ==
  << [id |-> "sequential", baseSpeed |-> 1,   successRate |-> 100,
      complexityMultiplier |-> [num |-> 1, den |-> 1]],
     [id |-> "dictionary", baseSpeed |-> 100, successRate |-> 15,
      complexityMultiplier |-> [num |-> 1, den |-> 10]],
     [id |-> "hybrid",     baseSpeed |-> 10,  successRate |-> 45,
      complexityMultiplier |-> [num |-> 1, den |-> 2]] >>

\* ATTACK_METHODS.find((m) => m.id === id)
FindMethod(id) ==
  ATTACK_METHODS[CHOOSE i \in 1..Len(ATTACK_METHODS) : ATTACK_METHODS[i].id = id]

\* Math.log2 at the powers of two
Log2(n) == CHOOSE k \in 0..4 : BNat(n) = BPow(2, k)

calculatePasswordSpace(length, charset, method) ==
  LET baseSpace == BPow(charset, length)
  IN BCeilDiv(BMulSmall(baseSpace, method.complexityMultiplier.num),
              method.complexityMultiplier.den)

\* variant: the length itself, not its logarithm, as the penalty
calculateHashingSpeed_linearPenalty(baseSpeed, hardware, passwordLength) ==
  BFloorDiv(HARDWARE_PROFILES[hardware].baseSpeed, passwordLength)

calculateHashingSpeed(baseSpeed, hardware, passwordLength) ==
  LET l == Log2(passwordLength)
      lengthPenalty == IF l > 1 THEN l ELSE 1
  IN BFloorDiv(HARDWARE_PROFILES[hardware].baseSpeed, lengthPenalty)

\* timeInHours = ms / 3600000; the result is num / (3600000 * 1000) kWh
calculateEnergyCost(ms, hardware) ==
  Rat(BMulSmall(BNat(ms), HARDWARE_PROFILES[hardware].powerCost),
      BMulSmall(BNat(3600000), 1000))

----------------------------------------------------------------------------
(* BruteForceSimulator: state *)

\* samples kept in graphData
SeriesCap == 30

InitStats ==
  [attempts |-> <<>>, timeElapsed |-> 0,
   remainingCombinations |-> BNat(1000000), successRate |-> 0,
   estimatedTimeToComplete |-> Zero, energyCost |-> Zero,
   passwordsPerWatt |-> Zero]

NoClosure == [startTime |-> 0, method |-> "none", hardware |-> "none",
              totalSpace |-> <<>>, hashingSpeed |-> <<>>]

\* Idle, Running, Paused or Complete, read off the component's state
Phase ==
  IF simulation.isRunning THEN "Running"
  ELSE IF RatEq(simulation.progress, Hundred) THEN "Complete"
  ELSE IF stats.timeElapsed > 0 \/ graphData # <<>> THEN "Paused"
  ELSE "Idle"

SimInit ==
  /\ simulation = [method |-> "sequential", isRunning |-> FALSE,
                   progress |-> Zero, hardware |-> "cpu_basic"]
  /\ stats = InitStats
  /\ password = [length |-> 8, charset |-> 26]
  /\ graphData = <<>>
  /\ sampleLog = <<>>
  /\ closure = NoClosure
  /\ rafPending = FALSE
  /\ now = 0
  /\ tickCount = 0
  /\ lastOp = [name |-> "init", from |-> "Idle"]

\* variant: a resumed run measures the elapsed time from the resume
EffectClosure_restartsClock(sim, st, pw, t) ==
  LET attackMethod == FindMethod(sim.method)
  IN [startTime |-> t,
      method |-> sim.method,
      hardware |-> sim.hardware,
      totalSpace |-> calculatePasswordSpace(pw.length, pw.charset, attackMethod),
      hashingSpeed |-> calculateHashingSpeed(
                         HARDWARE_PROFILES[sim.hardware].baseSpeed,
                         sim.hardware, pw.length)]

\* the effect body, run when isRunning has become true: it captures
\* startTime and the configuration, and requests the first frame
EffectClosure(sim, st, pw, t) ==
  LET attackMethod == FindMethod(sim.method)
  IN [startTime |-> t - st.timeElapsed,
      method |-> sim.method,
      hardware |-> sim.hardware,
      totalSpace |-> calculatePasswordSpace(pw.length, pw.charset, attackMethod),
      hashingSpeed |-> calculateHashingSpeed(
                         HARDWARE_PROFILES[sim.hardware].baseSpeed,
                         sim.hardware, pw.length)]

\* variant: a frame that has reached the search space requests another frame
FrameValues_rescheduleAtFull(t) ==
  LET attackMethod == FindMethod(closure.method)
      totalSpace == closure.totalSpace
      hashingSpeed == closure.hashingSpeed
      elapsed == t - closure.startTime
      baseAttempts ==
        BFloorDiv(BMulSmall(BMul(BNat(elapsed), hashingSpeed),
                            attackMethod.baseSpeed), 1000)
      attempts == BMin(baseAttempts, totalSpace)
      progress == JSDiv(BMulSmall(attempts, 100), totalSpace)
      energyCost == calculateEnergyCost(elapsed, closure.hardware)
      passwordsPerWatt ==
        JSDiv(BMul(attempts, energyCost.den), BMulSmall(energyCost.num, 1000))
  IN [attackMethod |-> attackMethod, totalSpace |-> totalSpace,
      hashingSpeed |-> hashingSpeed, elapsed |-> elapsed,
      attempts |-> attempts, progress |-> progress,
      energyCost |-> energyCost, passwordsPerWatt |-> passwordsPerWatt,
      again |-> ~RatLess(Hundred, progress)]

\* variant: each frame adds the attempts of the time since the previous frame
FrameValues_incremental(t) ==
  LET attackMethod == FindMethod(closure.method)
      totalSpace == closure.totalSpace
      hashingSpeed == closure.hashingSpeed
      elapsed == t - closure.startTime
      baseAttempts ==
        BAdd(stats.attempts,
             BFloorDiv(BMulSmall(BMul(BNat(elapsed - stats.timeElapsed), hashingSpeed),
                                 attackMethod.baseSpeed), 1000))
      attempts == BMin(baseAttempts, totalSpace)
      progress == JSDiv(BMulSmall(attempts, 100), totalSpace)
      energyCost == calculateEnergyCost(elapsed, closure.hardware)
      passwordsPerWatt ==
        JSDiv(BMul(attempts, energyCost.den), BMulSmall(energyCost.num, 1000))
  IN [attackMethod |-> attackMethod, totalSpace |-> totalSpace,
      hashingSpeed |-> hashingSpeed, elapsed |-> elapsed,
      attempts |-> attempts, progress |-> progress,
      energyCost |-> energyCost, passwordsPerWatt |-> passwordsPerWatt,
      again |-> RatLess(progress, Hundred)]

\* variant: the attempts are capped one below the search space
FrameValues_cappedBelowSpace(t) ==
  LET attackMethod == FindMethod(closure.method)
      totalSpace == closure.totalSpace
      hashingSpeed == closure.hashingSpeed
      elapsed == t - closure.startTime
      baseAttempts ==
        BFloorDiv(BMulSmall(BMul(BNat(elapsed), hashingSpeed),
                            attackMethod.baseSpeed), 1000)
      attempts == BMin(baseAttempts, BSub(totalSpace, <<1>>))
      progress == JSDiv(BMulSmall(attempts, 100), totalSpace)
      energyCost == calculateEnergyCost(elapsed, closure.hardware)
      passwordsPerWatt ==
        JSDiv(BMul(attempts, energyCost.den), BMulSmall(energyCost.num, 1000))
  IN [attackMethod |-> attackMethod, totalSpace |-> totalSpace,
      hashingSpeed |-> hashingSpeed, elapsed |-> elapsed,
      attempts |-> attempts, progress |-> progress,
      energyCost |-> energyCost, passwordsPerWatt |-> passwordsPerWatt,
      again |-> RatLess(progress, Hundred)]

\* the values one run of animate computes when Date.now() returns t
FrameValues(t) ==
  LET attackMethod == FindMethod(closure.method)
      totalSpace == closure.totalSpace
      hashingSpeed == closure.hashingSpeed
      elapsed == t - closure.startTime
      baseAttempts ==
        BFloorDiv(BMulSmall(BMul(BNat(elapsed), hashingSpeed),
                            attackMethod.baseSpeed), 1000)
      attempts == BMin(baseAttempts, totalSpace)
      progress == JSDiv(BMulSmall(attempts, 100), totalSpace)
      energyCost == calculateEnergyCost(elapsed, closure.hardware)
      passwordsPerWatt ==
        JSDiv(BMul(attempts, energyCost.den), BMulSmall(energyCost.num, 1000))
  IN [attackMethod |-> attackMethod, totalSpace |-> totalSpace,
      hashingSpeed |-> hashingSpeed, elapsed |-> elapsed,
      attempts |-> attempts, progress |-> progress,
      energyCost |-> energyCost, passwordsPerWatt |-> passwordsPerWatt,
      again |-> RatLess(progress, Hundred)]

\* variant: the series keeps its oldest samples
AppendSample_keepsOldest(prev, sample) ==
  LET newData == Append(prev, sample)
  IN IF Len(newData) > SeriesCap
     THEN SubSeq(newData, 1, SeriesCap)
     ELSE newData

\* setGraphData((prev) => ...): the new sample appended, the series cut to
\* its last SeriesCap samples
AppendSample(prev, sample) ==
  LET newData == Append(prev, sample)
  IN IF Len(newData) > SeriesCap
     THEN SubSeq(newData, Len(newData) - SeriesCap + 1, Len(newData))
     ELSE newData

\* animate, run as the frame callback when Date.now() returns t; limit
\* bounds the frames explored.  sampleLog records every sample since the
\* last reset.
animateAt(t, limit) ==
  /\ rafPending
  /\ tickCount < limit
  /\ LET f == FrameValues(t)
         sample == [time |-> f.elapsed, attempts |-> f.hashingSpeed,
                    energyUsage |-> f.energyCost,
                    efficiency |-> f.passwordsPerWatt,
                    progress |-> f.progress]
     IN /\ graphData' = AppendSample(graphData, sample)
        /\ sampleLog' = Append(sampleLog, sample)
        /\ stats' = [attempts |-> f.attempts,
                     timeElapsed |-> f.elapsed,
                     remainingCombinations |-> BSub(f.totalSpace, f.attempts),
                     successRate |-> f.attackMethod.successRate,
                     estimatedTimeToComplete |->
                       JSDiv(f.totalSpace,
                             BMulSmall(f.hashingSpeed, f.attackMethod.baseSpeed)),
                     energyCost |-> f.energyCost,
                     passwordsPerWatt |-> f.passwordsPerWatt]
        /\ simulation' = [simulation EXCEPT
                            !.progress = IF RatLess(Hundred, f.progress)
                                         THEN Hundred ELSE f.progress,
                            !.isRunning = IF f.again THEN @ ELSE FALSE]
        /\ rafPending' = f.again
        /\ closure' = IF f.again THEN closure ELSE NoClosure
  /\ now' = t
  /\ tickCount' = tickCount + 1
  /\ lastOp' = [name |-> "tick", from |-> Phase]
  /\ UNCHANGED <<password, genVars, appVars>>

\* animate: one animation frame of the running simulation
animate == animateAt(now, MaxTicks)

\* Start button (disabled while running); the effect then captures the
\* configuration and requests the first frame
handleStart ==
  /\ ~simulation.isRunning
  /\ simulation' = [simulation EXCEPT !.isRunning = TRUE]
  /\ closure' = EffectClosure(simulation', stats, password, now)
  /\ rafPending' = TRUE
  /\ lastOp' = [name |-> "start", from |-> Phase, at |-> now]
  /\ UNCHANGED <<stats, password, graphData, sampleLog, now, tickCount, genVars, appVars>>

\* variant: a pause that leaves the requested frame pending
handlePause_noCancel ==
  /\ simulation.isRunning
  /\ simulation' = [simulation EXCEPT !.isRunning = FALSE]
  /\ lastOp' = [name |-> "pause", from |-> Phase]
  /\ UNCHANGED <<stats, password, graphData, sampleLog, closure, rafPending, now,
                 tickCount, genVars, appVars>>

\* Pause button (enabled only while running); the effect cleanup cancels
\* the requested frame
handlePause ==
  /\ simulation.isRunning
  /\ simulation' = [simulation EXCEPT !.isRunning = FALSE]
  /\ rafPending' = FALSE
  /\ closure' = NoClosure
  /\ lastOp' = [name |-> "pause", from |-> Phase]
  /\ UNCHANGED <<stats, password, graphData, sampleLog, now, tickCount, genVars, appVars>>

\* variant: a reset that forgets to clear the elapsed time
handleReset_keepsElapsed ==
  /\ ~simulation.isRunning
  /\ simulation' = [simulation EXCEPT !.isRunning = FALSE, !.progress = Zero]
  /\ stats' = [stats EXCEPT !.attempts = <<>>,
                            !.remainingCombinations =
                               calculatePasswordSpace(password.length, password.charset,
                                                      ATTACK_METHODS[1])]
  /\ graphData' = <<>>
  /\ sampleLog' = <<>>
  /\ rafPending' = FALSE
  /\ lastOp' = [name |-> "reset", from |-> Phase]
  /\ UNCHANGED <<password, closure, now, tickCount, genVars, appVars>>

\* Reset button (disabled while running)
handleReset ==
  /\ ~simulation.isRunning
  /\ simulation' = [simulation EXCEPT !.isRunning = FALSE, !.progress = Zero]
  /\ stats' = [attempts |-> <<>>,
               timeElapsed |-> 0,
               remainingCombinations |->
                 calculatePasswordSpace(password.length, password.charset,
                                        ATTACK_METHODS[1]),
               successRate |-> 0,
               estimatedTimeToComplete |-> Zero,
               energyCost |-> Zero,
               passwordsPerWatt |-> Zero]
  /\ graphData' = <<>>
  /\ sampleLog' = <<>>
  /\ rafPending' = FALSE
  /\ lastOp' = [name |-> "reset", from |-> Phase]
  /\ UNCHANGED <<password, closure, now, tickCount, genVars, appVars>>

\* password length slider (disabled while running)
setPasswordLength(l) ==
  /\ ~simulation.isRunning
  /\ l # password.length
  /\ password' = [password EXCEPT !.length = l]
  /\ lastOp' = [name |-> "length", from |-> Phase]
  /\ UNCHANGED <<simulation, stats, graphData, sampleLog, closure, rafPending, now,
                 tickCount, genVars, appVars>>

\* attack method buttons (disabled while running)
setMethod(m) ==
  /\ ~simulation.isRunning
  /\ m # simulation.method
  /\ simulation' = [simulation EXCEPT !.method = m]
  /\ lastOp' = [name |-> "method", from |-> Phase]
  /\ UNCHANGED <<stats, password, graphData, sampleLog, closure, rafPending, now,
                 tickCount, genVars, appVars>>

\* hardware buttons (disabled while running)
setHardware(h) ==
  /\ ~simulation.isRunning
  /\ h # simulation.hardware
  /\ simulation' = [simulation EXCEPT !.hardware = h]
  /\ lastOp' = [name |-> "hardware", from |-> Phase]
  /\ UNCHANGED <<stats, password, graphData, sampleLog, closure, rafPending, now,
                 tickCount, genVars, appVars>>

\* the wall clock read by Date.now() moves on
Advance(d) ==
  /\ now + d <= MaxNow
  /\ now' = now + d
  /\ UNCHANGED <<simulation, stats, password, graphData, sampleLog, closure, rafPending,
                 tickCount, lastOp, genVars, appVars>>

----------------------------------------------------------------------------
(* passwordUtils and cryptoUtils *)
(* Strings are sequences of one-character strings.  A call is recorded as  *)
(* [fn, arg, raw, kind, value, error, drawn]: raw is the values the call   *)
(* took from crypto.getRandomValues, kind is "return" (value is what       *)
(* was returned) or "throw" (error is the exception), arg is the numeric   *)
(* argument of the cryptoUtils functions, drawn is the number of           *)
(* values taken from crypto.getRandomValues.                               *)

\* longest password length and largest word count the model passes
MaxLength == 2
MaxWords == 2

\* raw values of crypto.getRandomValues the model draws: 0, 11, 899, 2^32 - 1
RawValues == {<<>>, BNat(11), BNat(899), <<295, 967, 294, 4>>}
\* separators the model passes (two of the five offered)
Separators == {<<"-">>, <<" ">>}

AsciiLower ==
  <<"a", "b", "c", "d", "e", "f", "g", "h", "i", "j", "k", "l", "m", "n",
  "o", "p", "q", "r", "s", "t", "u", "v", "w", "x", "y", "z">>

AsciiUpper ==
  <<"A", "B", "C", "D", "E", "F", "G", "H", "I", "J", "K", "L", "M", "N",
  "O", "P", "Q", "R", "S", "T", "U", "V", "W", "X", "Y", "Z">>

\* constants/characterSets
LOWERCASE_CHARS == AsciiLower
UPPERCASE_CHARS == AsciiUpper
NUMBER_CHARS == <<"0", "1", "2", "3", "4", "5", "6", "7", "8", "9">>
SYMBOL_CHARS == <<"!", "@", "#", "$", "%", "^", "&", "*">>
AMBIGUOUS_CHARS == <<"l", "1", "I", "O", "0">>

\* constants/wordLists
ENGLISH_WORDS ==
  << <<"l", "o", "v", "e">>,
     <<"s", "t", "a", "r">>,
     <<"r", "o", "c", "k">>,
     <<"b", "l", "u", "e">>,
     <<"d", "r", "a", "g", "o", "n">>,
     <<"r", "e", "d">>,
     <<"b", "l", "a", "c", "k">>,
     <<"a", "n", "g", "e", "l">> >>

SPANISH_WORDS ==
  << <<"a", "g", "u", "a">>,
     <<"a", "i", "r", "e">>,
     <<"a", "l", "m", "a">>,
     <<"a", "m", "i", "g", "o">>,
     <<"a", "m", "o", "r">>,
     <<"a", "n", "g", "e", "l">>,
     <<"a", "r", "b", "o", "l">>,
     <<"a", "r", "e", "n", "a">> >>

WORDS_BY_LANGUAGE == [en |-> ENGLISH_WORDS, es |-> SPANISH_WORDS]

Range(f) == {f[i] : i \in DOMAIN f}

\* object[key] of JavaScript: undefined when the object has no such key
Get(object, key) ==
  IF key \in DOMAIN object
  THEN [defined |-> TRUE, value |-> object[key]]
  ELSE [defined |-> FALSE, value |-> <<>>]

\* cryptoValue[0] % max, for the value that crypto.getRandomValues drew
getRandomNumber(cryptoValue, max) == BDivRem(cryptoValue, max).r

\* String.prototype.toUpperCase on one character
toUpperCase(c) ==
  IF \E i \in 1..Len(AsciiLower) : AsciiLower[i] = c
  THEN AsciiUpper[CHOOSE i \in 1..Len(AsciiLower) : AsciiLower[i] = c]
  ELSE c

capitalizeFirstLetter(word) ==
  IF word = <<>> THEN <<>> ELSE <<toUpperCase(Head(word))>> \o Tail(word)

\* Number.prototype.toString of a non-negative integer
RECURSIVE toString(_)
toString(n) ==
  IF n < 10 THEN <<NUMBER_CHARS[n + 1]>>
  ELSE toString(n \div 10) \o <<NUMBER_CHARS[(n % 10) + 1]>>

\* Array.prototype.join
RECURSIVE join(_, _)
join(tokens, separator) ==
  IF tokens = <<>> THEN <<>>
  ELSE IF Len(tokens) = 1 THEN tokens[1]
  ELSE tokens[1] \o separator \o join(Tail(tokens), separator)

Return(v, n) == [kind |-> "return", value |-> v, error |-> "", drawn |-> n]
Throw(e, n) == [kind |-> "throw", value |-> <<>>, error |-> e, drawn |-> n]

\* the values of an unsigned 32-bit integer lie below this
Uint32Limit == BPow(2, 32)

\* variant: the array is one element short
getRandomNumbers_oneShort(length, cryptoValues) ==
  IF length < 0
  THEN Throw("RangeError: Invalid typed array length", 0)
  ELSE Return([i \in 1..(length - 1) |-> cryptoValues[i]], length)

\* getRandomNumbers(length), given the values crypto.getRandomValues fills
\* the Uint32Array with
getRandomNumbers(length, cryptoValues) ==
  IF length < 0
  THEN Throw("RangeError: Invalid typed array length", 0)
  ELSE Return([i \in 1..length |-> cryptoValues[i]], length)

\* variant: the loop stops one character early
generatePassword_shortLoop(opts, cryptoValues) ==
  LET chars == (IF opts.includeLowercase THEN LOWERCASE_CHARS ELSE <<>>)
               \o (IF opts.includeUppercase THEN UPPERCASE_CHARS ELSE <<>>)
               \o (IF opts.includeNumbers THEN NUMBER_CHARS ELSE <<>>)
               \o (IF opts.includeSymbols THEN SYMBOL_CHARS ELSE <<>>)
  IN IF Len(chars) = 0
     THEN Throw("Error: At least one character set must be selected", 0)
     ELSE IF opts.length < 0
     THEN Throw("RangeError: Invalid typed array length", 0)
     ELSE Return([i \in 1..(opts.length - 1) |->
                    chars[getRandomNumber(cryptoValues[i], Len(chars)) + 1]],
                 opts.length)

\* variant: the random values are drawn before the alphabet is checked
generatePassword_drawsFirst(opts, cryptoValues) ==
  LET NotAmbiguous(char) == char \notin Range(AMBIGUOUS_CHARS)
      assembled == (IF opts.includeLowercase THEN LOWERCASE_CHARS ELSE <<>>)
                   \o (IF opts.includeUppercase THEN UPPERCASE_CHARS ELSE <<>>)
                   \o (IF opts.includeNumbers THEN NUMBER_CHARS ELSE <<>>)
                   \o (IF opts.includeSymbols THEN SYMBOL_CHARS ELSE <<>>)
      chars == IF opts.excludeAmbiguous
               THEN SelectSeq(assembled, NotAmbiguous)
               ELSE assembled
  IN IF opts.length < 0
     THEN Throw("RangeError: Invalid typed array length", 0)
     ELSE IF Len(chars) = 0
     THEN Throw("Error: At least one character set must be selected", opts.length)
     ELSE Return([i \in 1..opts.length |->
                    chars[getRandomNumber(cryptoValues[i], Len(chars)) + 1]],
                 opts.length)

\* variant: the numbers are added before the uppercase letters
assembleChars_numbersBeforeUppercase(opts) ==
  LET NotAmbiguous(char) == char \notin Range(AMBIGUOUS_CHARS)
      assembled == (IF opts.includeLowercase THEN LOWERCASE_CHARS ELSE <<>>)
                   \o (IF opts.includeNumbers THEN NUMBER_CHARS ELSE <<>>)
                   \o (IF opts.includeUppercase THEN UPPERCASE_CHARS ELSE <<>>)
                   \o (IF opts.includeSymbols THEN SYMBOL_CHARS ELSE <<>>)
  IN IF opts.excludeAmbiguous
     THEN SelectSeq(assembled, NotAmbiguous)
     ELSE assembled

\* chars, as generatePassword assembles it before the emptiness check
assembleChars(opts) ==
  LET NotAmbiguous(char) == char \notin Range(AMBIGUOUS_CHARS)
      assembled == (IF opts.includeLowercase THEN LOWERCASE_CHARS ELSE <<>>)
                   \o (IF opts.includeUppercase THEN UPPERCASE_CHARS ELSE <<>>)
                   \o (IF opts.includeNumbers THEN NUMBER_CHARS ELSE <<>>)
                   \o (IF opts.includeSymbols THEN SYMBOL_CHARS ELSE <<>>)
  IN IF opts.excludeAmbiguous
     THEN SelectSeq(assembled, NotAmbiguous)
     ELSE assembled

\* variant: each character is put in front of the password built so far
generatePassword_prepends(opts, cryptoValues) ==
  LET chars == assembleChars(opts)
  IN IF Len(chars) = 0
     THEN Throw("Error: At least one character set must be selected", 0)
     ELSE IF opts.length < 0
     THEN Throw("RangeError: Invalid typed array length", 0)
     ELSE Return([i \in 1..opts.length |->
                    chars[getRandomNumber(cryptoValues[opts.length + 1 - i],
                                          Len(chars)) + 1]],
                 opts.length)

\* generatePassword(options), given the values getRandomNumbers would return
generatePassword(opts, cryptoValues) ==
  LET chars == assembleChars(opts)
  IN IF Len(chars) = 0
     THEN Throw("Error: At least one character set must be selected", 0)
     ELSE IF opts.length < 0
     THEN Throw("RangeError: Invalid typed array length", 0)
     ELSE Return([i \in 1..opts.length |->
                    chars[getRandomNumber(cryptoValues[i], Len(chars)) + 1]],
                 opts.length)

\* generateWordBasedPassword(options), given the values the successive
\* getRandomNumber calls would draw
generateWordBasedPassword(opts, wordValues, numberValue) ==
  LET language == Get(opts, "language")
      wordList == IF language.defined
                  THEN Get(WORDS_BY_LANGUAGE, language.value)
                  ELSE [defined |-> FALSE, value |-> <<>>]
      count == IF opts.wordCount > 0 THEN opts.wordCount ELSE 0
  IN IF count > 0 /\ ~wordList.defined
     THEN Throw("TypeError: Cannot read properties of undefined (reading 'length')", 0)
     ELSE LET words == [i \in 1..count |->
                          capitalizeFirstLetter(
                            wordList.value[getRandomNumber(wordValues[i],
                                                           Len(wordList.value)) + 1])]
              tokens == IF opts.includeNumbers
                        THEN Append(words, toString(getRandomNumber(numberValue, 900) + 100))
                        ELSE words
          IN Return(join(tokens, opts.wordSeparator),
                    count + (IF opts.includeNumbers THEN 1 ELSE 0))

\* the values of PasswordOptions the model passes
PasswordOptions ==
  [length : -1..MaxLength,
   includeLowercase : BOOLEAN, includeUppercase : BOOLEAN,
   includeNumbers : BOOLEAN, includeSymbols : BOOLEAN,
   excludeAmbiguous : BOOLEAN,
   wordCount : -1..MaxWords,
   wordSeparator : Separators,
   wordLanguage : {"en", "es"}]

RawSeqs(n) == IF n <= 0 THEN {<<>>} ELSE [1..n -> RawValues]

NoCall ==
  [fn |-> "none", arg |-> 0, raw |-> <<>>, kind |-> "none", value |-> <<>>, error |-> "", drawn |-> 0]

\* the upper bounds the model passes to getRandomNumber
MaxChoices == {1, 2, 3, 7, 12, 16, 100, 256, 900, 1000}

\* the largest count the model passes to getRandomNumbers
MaxCount == 3

CallGetRandomNumber ==
  /\ \E max \in MaxChoices, cryptoValue \in RawValues :
       call' = [fn |-> "getRandomNumber", arg |-> max, raw |-> <<cryptoValue>>]
               @@ Return(getRandomNumber(cryptoValue, max), 1)
  /\ UNCHANGED <<options, simVars, appVars>>

CallGetRandomNumbers ==
  /\ \E length \in -1..MaxCount :
       \E cryptoValues \in RawSeqs(length) :
         call' = [fn |-> "getRandomNumbers", arg |-> length, raw |-> cryptoValues]
                 @@ getRandomNumbers(length, cryptoValues)
  /\ UNCHANGED <<options, simVars, appVars>>

CallGeneratePassword ==
  /\ \E cryptoValues \in RawSeqs(options.length) :
       LET result == generatePassword(options, cryptoValues)
       IN call' = [fn |-> "generatePassword", arg |-> 0,
                   raw |-> SubSeq(cryptoValues, 1, result.drawn)] @@ result
  /\ UNCHANGED <<options, simVars, appVars>>

CallGenerateWordBasedPassword ==
  /\ \E wordValues \in RawSeqs(options.wordCount), numberValue \in RawValues :
       LET result == generateWordBasedPassword(options, wordValues, numberValue)
       IN call' = [fn |-> "generateWordBasedPassword", arg |-> 0,
                   raw |-> SubSeq(Append(wordValues, numberValue), 1, result.drawn)]
                  @@ result
  /\ UNCHANGED <<options, simVars, appVars>>

\* the generator is not used while the simulator is explored
GenIdle ==
  /\ options = [length |-> 16, includeLowercase |-> TRUE, includeUppercase |-> TRUE,
                includeNumbers |-> TRUE, includeSymbols |-> TRUE,
                excludeAmbiguous |-> FALSE, wordCount |-> 4,
                wordSeparator |-> <<"-">>, wordLanguage |-> "en"]
  /\ call = NoCall

----------------------------------------------------------------------------
(* PasswordGenerator component: the password field and its strength report *)

\* calls of the zxcvbn oracle explored in one behaviour
MaxOracleCalls == 3

\* passwords the model types into the field
TypedPasswords == {<<>>, <<"a">>, <<"a", "B">>, <<"7", "!">>}

\* crack_times_seconds the oracle answers with, in seconds
OracleCrackTimes ==
  { [offline_fast_hashing_1e10_per_second |-> 0,
     offline_slow_hashing_1e4_per_second |-> 0,
     online_no_throttling_10_per_second |-> 0,
     online_throttling_100_per_hour |-> 36],
    [offline_fast_hashing_1e10_per_second |-> 1,
     offline_slow_hashing_1e4_per_second |-> 90,
     online_no_throttling_10_per_second |-> 7000,
     online_throttling_100_per_hour |-> 2000000] }

\* the answers zxcvbn(pwd) may give
OracleResults(pwd) ==
  [score : 0..4,
   feedback : [warning : {"", "This is a very common password"},
               suggestions : {<<>>, <<"Add another word or two">>}],
   crack_times_seconds : OracleCrackTimes,
   sequence : {<<>>, <<[pattern |-> "bruteforce", token |-> pwd]>>}]

ZeroCrackTimes ==
  [offline_fast_hashing_1e10_per_second |-> 0,
   offline_slow_hashing_1e4_per_second |-> 0,
   online_no_throttling_10_per_second |-> 0,
   online_throttling_100_per_hour |-> 0]

\* Math.round(a / b) for naturals
Round(a, b) == (2 * a + b) \div (2 * b)

\* formatCrackTime: the count and its unit ("instantly" has no count)
formatCrackTime(seconds) ==
  IF seconds < 1 THEN [n |-> 0, unit |-> "instantly"]
  ELSE IF seconds < 60 THEN [n |-> seconds, unit |-> "seconds"]
  ELSE IF seconds < 3600 THEN [n |-> Round(seconds, 60), unit |-> "minutes"]
  ELSE IF seconds < 86400 THEN [n |-> Round(seconds, 3600), unit |-> "hours"]
  ELSE IF seconds < 2592000 THEN [n |-> Round(seconds, 86400), unit |-> "days"]
  ELSE IF seconds < 31536000 THEN [n |-> Round(seconds, 2592000), unit |-> "months"]
  ELSE [n |-> Round(seconds, 31536000), unit |-> "years"]

\* the empty string as the crackTime
NoCrackTime == [n |-> 0, unit |-> ""]

\* calculatePasswordEntropy: length * log2(size), kept as the pair; size
\* adds up the classes that occur in the password
calculatePasswordEntropy(pwd) ==
  LET Has(class) == \E i \in 1..Len(pwd) : pwd[i] \in Range(class)
      size == (IF Has(LOWERCASE_CHARS) THEN 26 ELSE 0)
              + (IF Has(UPPERCASE_CHARS) THEN 26 ELSE 0)
              + (IF Has(NUMBER_CHARS) THEN 10 ELSE 0)
              + (IF \E i \in 1..Len(pwd) :
                      pwd[i] \notin Range(LOWERCASE_CHARS) \cup Range(UPPERCASE_CHARS)
                                      \cup Range(NUMBER_CHARS)
                  THEN 32 ELSE 0)
  IN [length |-> Len(pwd), size |-> size]

\* the number 0 as an entropy
ZeroEntropy == [length |-> 0, size |-> 1]

EmptyStrength ==
  [score |-> 0, entropy |-> ZeroEntropy,
   feedback |-> [warning |-> "", suggestions |-> <<>>],
   crackTime |-> NoCrackTime, pattern |-> "",
   crackTimesSeconds |-> ZeroCrackTimes, sequence |-> <<>>]

\* variant: the oracle is consulted for every password, the empty one included
analyzePassword_noEmptyGuard(pwd, result) ==
  [oracle |-> 1,
   strength |->
     [score |-> result.score,
      entropy |-> calculatePasswordEntropy(pwd),
      feedback |-> [warning |-> result.feedback.warning,
                    suggestions |-> result.feedback.suggestions],
      crackTime |-> formatCrackTime(
                      result.crack_times_seconds.online_no_throttling_10_per_second),
      pattern |-> IF result.sequence = <<>> THEN ""
                  ELSE result.sequence[1].pattern,
      crackTimesSeconds |-> result.crack_times_seconds,
      sequence |-> [i \in 1..Len(result.sequence) |->
                      <<result.sequence[i].pattern, " (",
                        result.sequence[i].token, ")">>]]]

\* analyzePassword(pwd): the strength it sets and the number of oracle calls
\* it makes, result being the answer of zxcvbn(pwd) when it is asked
analyzePassword(pwd, result) ==
  IF pwd = <<>>
  THEN [oracle |-> 0, strength |-> EmptyStrength]
  ELSE [oracle |-> 1,
        strength |->
          [score |-> result.score,
           entropy |-> calculatePasswordEntropy(pwd),
           feedback |-> [warning |-> result.feedback.warning,
                         suggestions |-> result.feedback.suggestions],
           crackTime |-> formatCrackTime(
                           result.crack_times_seconds.online_no_throttling_10_per_second),
           pattern |-> IF result.sequence = <<>> THEN ""
                       ELSE result.sequence[1].pattern,
           crackTimesSeconds |-> result.crack_times_seconds,
           sequence |-> [i \in 1..Len(result.sequence) |->
                           <<result.sequence[i].pattern, " (",
                             result.sequence[i].token, ")">>]]]

\* localStorage: every key is either absent or holds a text
EmptyStorage ==
  [passwordHistory |-> [present |-> FALSE, text |-> <<>>],
   passwordFavorites |-> [present |-> FALSE, text |-> <<>>]]

AppInit ==
  /\ pgPassword = <<>>
  /\ strength = EmptyStrength
  /\ oracleCalls = 0
  /\ passwordHistory = <<>>
  /\ favorites = <<>>
  /\ localStorage = EmptyStorage

\* the password field is edited: setPassword, then the effect analyses it
typePassword(pwd) ==
  /\ pwd # pgPassword
  /\ \E result \in OracleResults(pwd) :
       LET a == analyzePassword(pwd, result)
       IN /\ oracleCalls + a.oracle <= MaxOracleCalls
          /\ strength' = a.strength
          /\ oracleCalls' = oracleCalls + a.oracle
  /\ pgPassword' = pwd
  /\ UNCHANGED <<simVars, genVars, histVars>>

----------------------------------------------------------------------------
(* PasswordGenerator and PasswordHistoryList: history, favorites, storage  *)
(* A text produced by JSON.stringify is a sequence of tokens [t, ...]:     *)
(* brackets, braces, keys and values.  favorites is the Set in insertion   *)
(* order.  call records the last handler that ran, its argument in arg     *)
(* (for a click on Generate, the history the click found) and the error    *)
(* it logged in error.                                                     *)

MAX_HISTORY == 10

\* clicks on Generate explored in one behaviour
MaxGenerates == 2

\* tags the whole history may carry in the model
MaxTags == 1

\* favorites kept in the model
MaxFavorites == 1

\* every random value of the password generated at t is this one
HistoryDraws(t) == {BNat(10 + t)}

GenerationModes == {"random", "words"}

\* the text typed into the new-tag field
NewTags == {<<"w">>, <<" ", "w">>, <<" ">>}

\* String.prototype.trim on spaces
RECURSIVE trimStart(_)
trimStart(str) ==
  IF str # <<>> /\ Head(str) = " " THEN trimStart(Tail(str)) ELSE str

RECURSIVE trimEnd(_)
trimEnd(str) ==
  IF str # <<>> /\ str[Len(str)] = " "
  THEN trimEnd(SubSeq(str, 1, Len(str) - 1)) ELSE str

trim(str) == trimEnd(trimStart(str))

\* the keys of a history entry, in the order they are written
EntryKeys == <<"password", "timestamp", "strength", "type", "tags">>

RECURSIVE stringifyFields(_, _)
stringifyFields(object, keys) ==
  IF keys = <<>> THEN <<>>
  ELSE (IF Head(keys) \in DOMAIN object
        THEN <<[t |-> "key", k |-> Head(keys)], [t |-> "val", v |-> object[Head(keys)]]>>
        ELSE <<>>)
       \o stringifyFields(object, Tail(keys))

RECURSIVE stringifyEntries(_)
stringifyEntries(entries) ==
  IF entries = <<>> THEN <<>>
  ELSE <<[t |-> "{"]>> \o stringifyFields(Head(entries), EntryKeys) \o <<[t |-> "}"]>>
       \o stringifyEntries(Tail(entries))

\* JSON.stringify of an array of history entries
JSONstringify(history) == <<[t |-> "["]>> \o stringifyEntries(history) \o <<[t |-> "]"]>>

\* JSON.stringify of an array of strings
JSONstringifyStrings(strings) ==
  <<[t |-> "["]>> \o [i \in 1..Len(strings) |-> [t |-> "val", v |-> strings[i]]]
  \o <<[t |-> "]"]>>

RECURSIVE parseTokens(_, _, _, _)
parseTokens(text, i, object, array) ==
  IF i > Len(text) THEN array
  ELSE CASE text[i].t = "[" -> parseTokens(text, i + 1, object, array)
         [] text[i].t = "]" -> array
         [] text[i].t = "{" -> parseTokens(text, i + 1, <<>>, array)
         [] text[i].t = "}" -> parseTokens(text, i + 1, <<>>, Append(array, object))
         [] text[i].t = "key" ->
              parseTokens(text, i + 2, object @@ (text[i].k :> text[i + 1].v), array)
         [] text[i].t = "val" -> parseTokens(text, i + 1, object, Append(array, text[i].v))

\* JSON.parse of a text written by JSON.stringify
JSONparse(text) == parseTokens(text, 1, <<>>, <<>>)

getItem(storage, key) == storage[key]
setItem(storage, key, text) == [storage EXCEPT ![key] = [present |-> TRUE, text |-> text]]
removeItem(storage, key) == [storage EXCEPT ![key] = [present |-> FALSE, text |-> <<>>]]

savePasswordHistory(storage, history) ==
  setItem(storage, "passwordHistory", JSONstringify(history))

\* new Set(array), in insertion order
RECURSIVE newSet(_)
newSet(array) ==
  IF array = <<>> THEN <<>>
  ELSE LET rest == newSet(SubSeq(array, 1, Len(array) - 1))
           last == array[Len(array)]
       IN IF last \in Range(rest) THEN rest ELSE Append(rest, last)

\* zxcvbn's answer for a generated password
GeneratedOracleResults(pwd) ==
  {result \in OracleResults(pwd) :
     /\ result.score = 4
     /\ result.feedback = [warning |-> "", suggestions |-> <<>>]
     /\ result.crack_times_seconds.online_throttling_100_per_hour > 36
     /\ result.sequence # <<>>}

\* what a handler leaves in call
Handled(fn, arg, error) ==
  [fn |-> fn, arg |-> arg, raw |-> <<>>, kind |-> "return", value |-> <<>>,
   error |-> error, drawn |-> 0]

\* the passwords the history list shows
PasswordsShown == {passwordHistory[i].password : i \in 1..Len(passwordHistory)}

\* entry.tags || []
TagsOf(entry) == IF "tags" \in DOMAIN entry THEN entry.tags ELSE <<>>

\* { ...entry, tags }
WithTags(entry, tags) == [k \in DOMAIN entry \cup {"tags"} |->
                            IF k = "tags" THEN tags ELSE entry[k]]

\* handleGeneratePassword, clicked when Date.now() returns t
handleGeneratePasswordAt(t, generationMode) ==
  /\ t <= MaxGenerates
  /\ now' = t
  /\ \E draw \in HistoryDraws(t) :
       LET generated ==
             IF generationMode = "random"
             THEN generatePassword(options, [i \in 1..options.length |-> draw])
             ELSE generateWordBasedPassword(
                    options, [i \in 1..options.wordCount |-> draw], draw)
           newPassword == generated.value
       IN /\ call' = [fn |-> "handleGeneratePassword", arg |-> passwordHistory,
                       raw |-> <<>>] @@ generated
          /\ IF generated.kind = "throw"
             THEN UNCHANGED appVars
             ELSE \E result \in GeneratedOracleResults(newPassword) :
                    LET analysed == analyzePassword(newPassword, result)
                        newHistory ==
                          SubSeq(<<[password |-> newPassword,
                                    timestamp |-> t,
                                    strength |-> result.score,
                                    type |-> generationMode,
                                    tags |-> <<>>]>> \o passwordHistory,
                                 1,
                                 IF Len(passwordHistory) + 1 > MAX_HISTORY
                                 THEN MAX_HISTORY ELSE Len(passwordHistory) + 1)
                    IN /\ pgPassword' = newPassword
                       /\ IF newPassword # pgPassword
                          THEN /\ strength' = analysed.strength
                               /\ oracleCalls' = oracleCalls + analysed.oracle + 1
                          ELSE /\ strength' = strength
                               /\ oracleCalls' = oracleCalls + 1
                       /\ passwordHistory' = newHistory
                       /\ localStorage' = savePasswordHistory(localStorage, newHistory)
                       /\ UNCHANGED favorites
  /\ UNCHANGED <<simulation, stats, password, graphData, closure, rafPending,
                 tickCount, lastOp, sampleLog, options>>

\* handleAddTag of the entry showing password, with newTag typed
handleAddTag(password_, newTag) ==
  /\ password_ \in PasswordsShown
  /\ call' = Handled("handleAddTag", [password |-> password_, tag |-> newTag], "")
  /\ IF trim(newTag) = <<>>
     THEN UNCHANGED histVars
     ELSE /\ passwordHistory' =
               [i \in 1..Len(passwordHistory) |->
                  IF passwordHistory[i].password = password_
                  THEN WithTags(passwordHistory[i],
                                Append(TagsOf(passwordHistory[i]), trim(newTag)))
                  ELSE passwordHistory[i]]
          /\ localStorage' = savePasswordHistory(localStorage, passwordHistory)
          /\ UNCHANGED favorites
  /\ UNCHANGED <<simVars, options, pgPassword, strength, oracleCalls>>

\* handleRemoveTag of a tag the entry showing password carries
handleRemoveTag(password_, tagToRemove) ==
  /\ \E i \in 1..Len(passwordHistory) :
       /\ passwordHistory[i].password = password_
       /\ tagToRemove \in Range(TagsOf(passwordHistory[i]))
  /\ call' = Handled("handleRemoveTag", [password |-> password_, tag |-> tagToRemove], "")
  /\ passwordHistory' =
       [i \in 1..Len(passwordHistory) |->
          IF passwordHistory[i].password = password_
          THEN WithTags(passwordHistory[i],
                        SelectSeq(TagsOf(passwordHistory[i]),
                                  LAMBDA tag : tag # tagToRemove))
          ELSE passwordHistory[i]]
  /\ localStorage' = savePasswordHistory(localStorage, passwordHistory)
  /\ UNCHANGED <<simVars, options, pgPassword, strength, oracleCalls, favorites>>

handleClearHistory ==
  /\ call' = Handled("handleClearHistory", 0, "")
  /\ passwordHistory' = <<>>
  /\ localStorage' = removeItem(localStorage, "passwordHistory")
  /\ UNCHANGED <<simVars, options, pgPassword, strength, oracleCalls, favorites>>

toggleFavorite(password_) ==
  /\ password_ \in PasswordsShown
  /\ LET newFavorites ==
           IF password_ \in Range(favorites)
           THEN SelectSeq(favorites, LAMBDA favorite : favorite # password_)
           ELSE Append(favorites, password_)
     IN /\ favorites' = newFavorites
        /\ localStorage' = setItem(localStorage, "passwordFavorites",
                                   JSONstringifyStrings(newFavorites))
  /\ call' = Handled("toggleFavorite", password_, "")
  /\ UNCHANGED <<simVars, options, pgPassword, strength, oracleCalls, passwordHistory>>

\* an entry of an exported file: id names its password
ImportedEntry(id) ==
  [password |-> <<"p", id>>, timestamp |-> 0, strength |-> 2, type |-> "random"]

\* The files offered to the import: text that is not JSON, the text null,
\* an export of another version, an export of one entry with a favorite
\* named twice, and an export of eleven entries.
ImportFiles ==
  { [parsable |-> FALSE, data |-> <<>>],
    [parsable |-> TRUE, data |-> [json |-> "null"]],
    [parsable |-> TRUE,
     data |-> [version |-> 2, passwords |-> <<ImportedEntry("a")>>, favorites |-> <<>>]],
    [parsable |-> TRUE,
     data |-> [version |-> 1, passwords |-> <<ImportedEntry("a")>>,
               favorites |-> << <<"p", "a">>, <<"p", "a">> >>]],
    [parsable |-> TRUE,
     data |-> [version |-> 1,
               passwords |-> [i \in 1..(MAX_HISTORY + 1) |->
                                ImportedEntry(<<"a", "b", "c", "d", "e", "f", "g", "h",
                                                "i", "j", "k">>[i])],
               favorites |-> <<>>]] }

\* handleImportHistory_ignoresVersion stands for an import that takes any
\* version.
handleImportHistory_ignoresVersion(file) ==
  /\ IF ~file.parsable
     THEN /\ call' = Handled("handleImportHistory", file,
                             "SyntaxError: Unexpected token")
          /\ UNCHANGED histVars
     ELSE IF "json" \in DOMAIN file.data
     THEN /\ call' = Handled("handleImportHistory", file,
                             "TypeError: Cannot read properties of null (reading 'version')")
          /\ UNCHANGED histVars
     ELSE /\ call' = Handled("handleImportHistory", file, "")
          /\ passwordHistory' = file.data.passwords
          /\ favorites' = newSet(file.data.favorites)
          /\ localStorage' =
               setItem(savePasswordHistory(localStorage, file.data.passwords),
                       "passwordFavorites", JSONstringifyStrings(file.data.favorites))
  /\ UNCHANGED <<simVars, options, pgPassword, strength, oracleCalls>>

\* reader.onload of handleImportHistory, for the file read
handleImportHistory(file) ==
  /\ IF ~file.parsable
     THEN /\ call' = Handled("handleImportHistory", file,
                             "SyntaxError: Unexpected token")
          /\ UNCHANGED histVars
     ELSE IF "json" \in DOMAIN file.data
     THEN /\ call' = Handled("handleImportHistory", file,
                             "TypeError: Cannot read properties of null (reading 'version')")
          /\ UNCHANGED histVars
     ELSE IF Get(file.data, "version") = [defined |-> TRUE, value |-> 1]
     THEN /\ call' = Handled("handleImportHistory", file, "")
          /\ passwordHistory' = file.data.passwords
          /\ favorites' = newSet(file.data.favorites)
          /\ localStorage' =
               setItem(savePasswordHistory(localStorage, file.data.passwords),
                       "passwordFavorites", JSONstringifyStrings(file.data.favorites))
     ELSE /\ call' = Handled("handleImportHistory", file, "")
          /\ UNCHANGED histVars
  /\ UNCHANGED <<simVars, options, pgPassword, strength, oracleCalls>>

GenInit ==
  /\ SimInit
  /\ options \in PasswordOptions
  /\ call = NoCall
  /\ AppInit

GenNext == CallGeneratePassword \/ CallGenerateWordBasedPassword

GenSpec == GenInit /\ [][GenNext]_vars

StrengthInit == SimInit /\ GenIdle /\ AppInit

StrengthNext == \E pwd \in TypedPasswords : typePassword(pwd)

StrengthSpec == StrengthInit /\ [][StrengthNext]_vars

Init == SimInit /\ GenIdle /\ AppInit

Next ==
  \/ handleStart
  \/ handlePause
  \/ handleReset
  \/ animate
  \/ \E l \in SliderLengths : setPasswordLength(l)
  \/ \E m \in MethodChoices : setMethod(m)
  \/ \E h \in HardwareChoices : setHardware(h)
  \/ \E d \in ClockSteps : Advance(d)

Spec == Init /\ [][Next]_vars

\* cryptoUtils called on its own
CryptoNext == CallGetRandomNumber \/ CallGetRandomNumbers

CryptoSpec == Init /\ [][CryptoNext]_vars

\* frames explored when the time series is followed past its capacity
SeriesTicks == 32

\* milliseconds between two frames of that exploration
FrameMs == 16

SeriesNext ==
  \/ handleStart
  \/ handlePause
  \/ handleReset
  \/ animateAt(now + FrameMs, SeriesTicks)

SeriesSpec == Init /\ [][SeriesNext]_vars

\* an entry that an earlier session left in storage
SavedEntry(i) ==
  [password |-> <<"s", <<"1", "2", "3", "4", "5", "6", "7", "8", "9">>[i]>>,
   timestamp |-> 0, strength |-> 3, type |-> "random", tags |-> <<>>]

\* what localStorage holds under passwordHistory when the page is opened
SavedHistories == {<<>>, [i \in 1..(MAX_HISTORY - 1) |-> SavedEntry(i)]}

\* the mount effect of PasswordGenerator: the saved history, parsed
loadHistory(storage) ==
  IF getItem(storage, "passwordHistory").present
  THEN JSONparse(getItem(storage, "passwordHistory").text)
  ELSE <<>>

\* the page once its mount effects have run
HistoryInit ==
  /\ SimInit
  /\ GenIdle
  /\ pgPassword = <<>>
  /\ strength = EmptyStrength
  /\ oracleCalls = 0
  /\ \E saved \in SavedHistories :
       localStorage = IF saved = <<>> THEN EmptyStorage
                      ELSE setItem(EmptyStorage, "passwordHistory", JSONstringify(saved))
  /\ passwordHistory = loadHistory(localStorage)
  /\ favorites = <<>>

\* the entry whose buttons are clicked is the newest one
ClickedPasswords ==
  IF passwordHistory = <<>> THEN {} ELSE {passwordHistory[1].password}

RECURSIVE TagCount(_)
TagCount(history) ==
  IF history = <<>> THEN 0 ELSE Len(TagsOf(Head(history))) + TagCount(Tail(history))

HistoryNext ==
  \/ \E generationMode \in GenerationModes :
       handleGeneratePasswordAt(now + 1, generationMode)
  \/ \E password_ \in ClickedPasswords, newTag \in NewTags :
       /\ trim(newTag) = <<>> \/ TagCount(passwordHistory) < MaxTags
       /\ handleAddTag(password_, newTag)
  \/ \E password_ \in ClickedPasswords, tagToRemove \in {trim(newTag) : newTag \in NewTags} :
       handleRemoveTag(password_, tagToRemove)
  \/ handleClearHistory
  \/ \E file \in ImportFiles : handleImportHistory(file)
  \/ \E password_ \in ClickedPasswords :
       /\ password_ \in Range(favorites) \/ Len(favorites) < MaxFavorites
       /\ toggleFavorite(password_)

HistorySpec == HistoryInit /\ [][HistoryNext]_vars

----------------------------------------------------------------------------
(* Properties of the simulator *)

\* the search space of the configuration currently selected
CurrentSpace ==
  calculatePasswordSpace(password.length, password.charset,
                         FindMethod(simulation.method))

\* the attempts that ms milliseconds amount to under the configuration
\* currently selected
CurrentAttempts(ms) ==
  BMin(BFloorDiv(BMulSmall(BMul(BNat(ms),
                                calculateHashingSpeed(
                                  HARDWARE_PROFILES[simulation.hardware].baseSpeed,
                                  simulation.hardware, password.length)),
                           FindMethod(simulation.method).baseSpeed), 1000),
       CurrentSpace)

\* C5: after handleReset the elapsed time, the attempts and the progress are
\* 0, the time series is empty and the simulation is not running, whatever
\* the state it was called in.
C5_ResetClearsSimulation ==
  lastOp.name = "reset" =>
    /\ stats.timeElapsed = 0
    /\ stats.attempts = <<>>
    /\ simulation.progress = Zero
    /\ graphData = <<>>
    /\ ~simulation.isRunning
    /\ ~rafPending

C5_Witness ==
  /\ lastOp = [name |-> "reset", from |-> "Complete"]
  /\ now > 0

\* C6: a step that is not a reset never decreases attemptsMade or
\* elapsedSeconds.
C6_MonotoneWithoutReset ==
  [][(~handleReset) =>
       /\ BLeq(stats.attempts, stats'.attempts)
       /\ stats.timeElapsed <= stats'.timeElapsed]_vars

\* C7: with the sequential method, attemptsMade never exceeds
\* alphabetSize^passwordLength of the password currently configured.
C7_AttemptsWithinKeyspace ==
  simulation.method = "sequential" =>
    BLeq(stats.attempts, BPow(password.charset, password.length))

\* C8: progress is exactly 100 only if attemptsMade equals the search space
\* of the current method and password parameters.
C8_FullProgressMeansSpaceExhausted ==
  RatEq(simulation.progress, Hundred) => stats.attempts = CurrentSpace

\* C9: for length 4, alphabet 26, sequential, cpu_basic a frame reports a
\* search space of 456976 and a completion estimate of 456976 / 250000 s
\* (between 1.827 s and 1.828 s).
C9_Scenario ==
  ( /\ lastOp.name = "tick"
    /\ password = [length |-> 4, charset |-> 26]
    /\ simulation.method = "sequential"
    /\ simulation.hardware = "cpu_basic" ) =>
    /\ BAdd(stats.attempts, stats.remainingCombinations) = BNat(456976)
    /\ stats.estimatedTimeToComplete = Rat(BNat(456976), BNat(250000))
    /\ BFloorDiv(BMulSmall(stats.estimatedTimeToComplete.num, 1000), 250000)
         = BNat(1827)

C9_Witness ==
  /\ lastOp.name = "tick"
  /\ password = [length |-> 4, charset |-> 26]
  /\ simulation.method = "sequential"
  /\ simulation.hardware = "cpu_basic"
  /\ stats.attempts = BNat(228500)
  /\ simulation.isRunning

\* C10: while the simulation is running, the accumulated attempts are those
\* of the elapsed time under the method, hardware and password length
\* currently selected (nothing accumulated under another configuration).
C10_RunningStatsOfCurrentConfig ==
  simulation.isRunning => stats.attempts = CurrentAttempts(stats.timeElapsed)

\* C14: once pause or reset has taken effect no frame changes the state: while
\* the simulation stays not running, elapsedSeconds, attemptsMade and the time
\* series keep their values, or are cleared by a reset.
C14_NoTickAfterPauseOrReset ==
  [][(~simulation.isRunning /\ ~simulation'.isRunning) =>
       \/ /\ stats'.timeElapsed = stats.timeElapsed
          /\ stats'.attempts = stats.attempts
          /\ graphData' = graphData
       \/ /\ stats'.timeElapsed = 0
          /\ stats'.attempts = <<>>
          /\ graphData' = <<>>]_vars

\* paused after a frame, and the clock has moved on since
C14_Witness ==
  /\ lastOp = [name |-> "pause", from |-> "Running"]
  /\ stats.timeElapsed = 914
  /\ now = 1828
  /\ ~rafPending

\* C15: the efficiency is 0 whenever the energy cost is 0, and neither the
\* statistics nor a sample of the time series holds a non-numeric efficiency.
C15_EfficiencyDefined ==
  /\ IsRat(stats.passwordsPerWatt)
  /\ RatEq(stats.energyCost, Zero) => RatEq(stats.passwordsPerWatt, Zero)
  /\ \A i \in 1..Len(graphData) :
       /\ IsRat(graphData[i].efficiency)
       /\ RatEq(graphData[i].energyUsage, Zero) =>
            RatEq(graphData[i].efficiency, Zero)

\* searchSpace / (effectiveSpeed * relativeSpeedFactor) of the configuration
\* currently selected
CurrentEstimate ==
  JSDiv(CurrentSpace,
        BMulSmall(calculateHashingSpeed(
                    HARDWARE_PROFILES[simulation.hardware].baseSpeed,
                    simulation.hardware, password.length),
                  FindMethod(simulation.method).baseSpeed))

\* C16: every state, Idle and the state after a reset included, exposes the
\* completion estimate of the current configuration.
C16_EstimateAlwaysExposed ==
  RatEq(stats.estimatedTimeToComplete, CurrentEstimate)

\* C17: from Complete on, no step other than a reset changes elapsedSeconds,
\* attemptsMade or the time series, a start from Complete and the frame that
\* follows it included.
C17_CompleteIsFrozen ==
  [][( /\ Phase = "Complete" \/ (lastOp.name = "start" /\ lastOp.from = "Complete")
       /\ ~handleReset ) =>
       /\ stats'.timeElapsed = stats.timeElapsed
       /\ stats'.attempts = stats.attempts
       /\ graphData' = graphData]_vars

\* C18: a frame of the running simulation that reaches the search space
\* stops the simulation at progress 100 and requests no frame; a frame below
\* the search space leaves it running with the next frame requested.
C18_TickCompletesOrReschedules ==
  (lastOp = [name |-> "tick", from |-> "Running"]) =>
    IF stats.attempts = BAdd(stats.attempts, stats.remainingCombinations)
    THEN /\ ~simulation.isRunning
         /\ RatEq(simulation.progress, Hundred)
         /\ ~rafPending
    ELSE /\ simulation.isRunning
         /\ rafPending

\* a frame has just reached the search space
C18_Witness ==
  /\ lastOp = [name |-> "tick", from |-> "Running"]
  /\ stats.remainingCombinations = <<>>
  /\ stats.attempts = BNat(456976)
  /\ ~simulation.isRunning

\* C19: what a frame leaves behind is a function of the elapsed time and the
\* configuration alone: attemptsMade, progress and energy cost are those of
\* elapsedSeconds, however many frames ran before.
C19_TickFromAbsoluteElapsed ==
  lastOp.name = "tick" =>
    /\ stats.attempts = CurrentAttempts(stats.timeElapsed)
    /\ RatEq(simulation.progress,
             JSDiv(BMulSmall(CurrentAttempts(stats.timeElapsed), 100), CurrentSpace))
    /\ RatEq(stats.energyCost,
             calculateEnergyCost(stats.timeElapsed, simulation.hardware))

\* 1828 ms reached in two frames, with a speed that is not a whole number
\* of attempts per millisecond
C19_Witness ==
  /\ lastOp.name = "tick"
  /\ password.length = 8
  /\ simulation.hardware = "cpu_basic"
  /\ simulation.method = "sequential"
  /\ Len(graphData) = 2
  /\ graphData[1].time = 914
  /\ stats.timeElapsed = 1828
  /\ stats.attempts = BNat(304665)

\* C20: the time series is the most recent min(30, frames since the reset)
\* samples in frame order, one sample per frame, never more than 30.
C20_SeriesIsLastThirty ==
  LET n == Len(sampleLog)
      k == IF n < SeriesCap THEN n ELSE SeriesCap
  IN /\ Len(graphData) = k
     /\ \A i \in 1..k : graphData[i] = sampleLog[n - k + i]
     /\ \A i \in 1..n : sampleLog[i].time = i * FrameMs + sampleLog[1].time - FrameMs

\* the 31st sample has pushed the first one out
C20_Witness ==
  /\ Len(sampleLog) = SeriesCap + 1
  /\ Len(graphData) = SeriesCap
  /\ graphData[1] = sampleLog[2]
  /\ graphData[SeriesCap] = sampleLog[SeriesCap + 1]

\* max(1, log2(passwordLength)) of the password currently configured
CurrentPenalty ==
  IF Log2(password.length) > 1 THEN Log2(password.length) ELSE 1

\* C21: the effective hashing speed of a run is exactly
\* hardware.hashesPerSecondBase / max(1, log2(passwordLength)): multiplied by
\* the penalty it gives the base speed back, nothing is rounded away.
C21_ExactHashingSpeed ==
  simulation.isRunning =>
    BMulSmall(closure.hashingSpeed, CurrentPenalty)
      = HARDWARE_PROFILES[simulation.hardware].baseSpeed

\* C22: after a frame of the running simulation attemptsMade is
\* min(searchSpace, floor(elapsedSeconds * effectiveSpeed * relativeSpeedFactor))
\* with effectiveSpeed = hashesPerSecondBase / max(1, log2(passwordLength)),
\* progressPercent is 100 * attemptsMade / searchSpace, and searchSpace is
\* ceil(alphabetSize^passwordLength * searchSpaceFraction).
C22_AttemptsFormula ==
  (lastOp = [name |-> "tick", from |-> "Running"]) =>
    LET method == FindMethod(simulation.method)
        searchSpace ==
          BCeilDiv(BMulSmall(BPow(password.charset, password.length),
                             method.complexityMultiplier.num),
                   method.complexityMultiplier.den)
        exact ==
          BFloorDiv(BMulSmall(BMul(BNat(stats.timeElapsed),
                                   HARDWARE_PROFILES[simulation.hardware].baseSpeed),
                              method.baseSpeed),
                    1000 * CurrentPenalty)
    IN /\ stats.attempts = BMin(searchSpace, exact)
       /\ RatEq(simulation.progress,
                JSDiv(BMulSmall(stats.attempts, 100), searchSpace))
       /\ BAdd(stats.attempts, stats.remainingCombinations) = searchSpace

\* C25: a pause changes neither elapsedSeconds, attemptsMade, the progress nor
\* the time series, and the first frame after a start reports the elapsed
\* time held at that start plus the time the run has lasted since.
C25_PausedTimeNotCounted ==
  [][/\ handlePause =>
          /\ stats' = stats
          /\ simulation'.progress = simulation.progress
          /\ graphData' = graphData
     /\ (lastOp.name = "start" /\ lastOp'.name = "tick") =>
          stats'.timeElapsed = stats.timeElapsed + (now' - lastOp.at)]_vars

\* a frame at 1828 ms of wall-clock time reports 914 ms after a first sample
\* at 914 ms
C25_Witness ==
  /\ lastOp.name = "tick"
  /\ now = 1828
  /\ Len(graphData) = 2
  /\ graphData[1].time = 914
  /\ stats.timeElapsed = 914

\* C26: after a frame or a reset, remainingCombinations + attemptsMade is the
\* search space of the method and password length currently selected.
C26_RemainingPlusAttempts ==
  lastOp.name \in {"tick", "reset"} =>
    BAdd(stats.remainingCombinations, stats.attempts) = CurrentSpace

\* frames explored when a run is followed to its end
LiveTicks == 5

\* milliseconds between two frames of that exploration
LiveFrameMs == 500

\* a run is started only if the frames left can bring it to its end
LiveStart ==
  /\ \E k \in 1..(LiveTicks - tickCount) :
       CurrentAttempts(stats.timeElapsed + k * LiveFrameMs) = CurrentSpace
  /\ handleStart

\* a frame fires, the clock having moved on by one frame interval
LiveTick == animateAt(now + LiveFrameMs, LiveTicks)

LiveNext ==
  \/ LiveStart
  \/ handlePause
  \/ handleReset
  \/ LiveTick
  \/ \E l \in SliderLengths : setPasswordLength(l)
  \/ \E m \in MethodChoices : setMethod(m)

\* a requested frame is due: the step that counts it is the frame callback
FrameDue ==
  /\ rafPending
  /\ tickCount < LiveTicks
  /\ tickCount' = tickCount + 1

\* the browser keeps delivering the requested frames
LiveSpec == Init /\ [][LiveNext]_vars /\ WF_tickCount(FrameDue)

\* C27: a running simulation whose frames keep firing reaches Complete
\* (attemptsMade equal to the search space, progress 100, not running) unless
\* it is paused.
C27_RunningReachesComplete ==
  simulation.isRunning ~>
    \/ lastOp.name = "pause"
    \/ /\ ~simulation.isRunning
       /\ RatEq(simulation.progress, Hundred)
       /\ stats.attempts = CurrentSpace
       /\ stats.remainingCombinations = <<>>

\* a run of four frames has exhausted the 456976 combinations
C27_Witness ==
  /\ lastOp = [name |-> "tick", from |-> "Running"]
  /\ Phase = "Complete"
  /\ Len(graphData) = 4
  /\ stats.attempts = BNat(456976)
  /\ stats.timeElapsed = 4 * LiveFrameMs

----------------------------------------------------------------------------
(* Properties of the generators *)

\* the characters eligible under the options: the enabled classes, without
\* the ambiguous characters when excludeAmbiguous is set
Alphabet(opts) ==
  ( (IF opts.includeLowercase THEN Range(LOWERCASE_CHARS) ELSE {})
    \cup (IF opts.includeUppercase THEN Range(UPPERCASE_CHARS) ELSE {})
    \cup (IF opts.includeNumbers THEN Range(NUMBER_CHARS) ELSE {})
    \cup (IF opts.includeSymbols THEN Range(SYMBOL_CHARS) ELSE {}) )
  \ (IF opts.excludeAmbiguous THEN Range(AMBIGUOUS_CHARS) ELSE {})

AnyClass(opts) ==
  opts.includeLowercase \/ opts.includeUppercase
    \/ opts.includeNumbers \/ opts.includeSymbols

\* C1: with at least one class enabled and length L >= 1, generatePassword
\* returns exactly L characters, each a member of the assembled alphabet.
C1_LengthAndAlphabet ==
  ( /\ call.fn = "generatePassword"
    /\ AnyClass(options)
    /\ options.length >= 1 ) =>
    /\ call.kind = "return"
    /\ Len(call.value) = options.length
    /\ \A i \in 1..Len(call.value) : call.value[i] \in Alphabet(options)

C1_Witness ==
  /\ call.fn = "generatePassword"
  /\ call.kind = "return"
  /\ options.length = 2
  /\ options.excludeAmbiguous
  /\ options.includeNumbers /\ ~options.includeLowercase
  /\ call.value = <<"9", "5">>

\* C2: with all four class flags false generatePassword fails with the
\* configuration error, whatever length and excludeAmbiguous are; it returns
\* no password and draws no random value.
C2_NoClassRejected ==
  ( /\ call.fn = "generatePassword"
    /\ ~AnyClass(options) ) =>
    /\ call.kind = "throw"
    /\ call.error = "Error: At least one character set must be selected"
    /\ call.value = <<>>
    /\ call.drawn = 0

C2_Witness ==
  /\ call.fn = "generatePassword"
  /\ ~AnyClass(options)
  /\ options.length = 2
  /\ options.excludeAmbiguous
  /\ call.kind = "throw"

\* the passphrases of n capitalised words of the list that wordLanguage
\* selects, followed by the tokens in extra, joined by the separator
Passphrases(opts, n, extra) ==
  LET list == WORDS_BY_LANGUAGE[opts.wordLanguage]
      Capitalised == {capitalizeFirstLetter(list[i]) : i \in 1..Len(list)}
  IN {join(ws \o extra, opts.wordSeparator) : ws \in [1..n -> Capitalised]}

\* C3: for a PasswordOptions value with wordCount = n >= 1 and includeNumbers
\* false, generateWordBasedPassword returns n capitalised words of the list
\* selected by wordLanguage, joined by wordSeparator.
C3_WordTokens ==
  ( /\ call.fn = "generateWordBasedPassword"
    /\ options.wordCount >= 1
    /\ ~options.includeNumbers ) =>
    /\ call.kind = "return"
    /\ call.value \in Passphrases(options, options.wordCount, <<>>)

\* C4: with includeNumbers set, generateWordBasedPassword returns wordCount
\* words followed by one more token, the decimal form of an integer of
\* 100..999.
C4_NumericSuffix ==
  ( /\ call.fn = "generateWordBasedPassword"
    /\ options.wordCount >= 0
    /\ options.includeNumbers ) =>
    /\ call.kind = "return"
    /\ \E k \in 100..999 :
         call.value \in Passphrases(options, options.wordCount, <<toString(k)>>)

\* C11: getRandomNumber(max) returns an integer in [0, max) for every positive
\* integer max, and getRandomNumbers(count) returns exactly count values, each
\* an unsigned 32-bit integer.
C11_RandomRanges ==
  /\ call.fn = "getRandomNumber" =>
       /\ call.kind = "return"
       /\ call.value \in 0..(call.arg - 1)
  /\ (call.fn = "getRandomNumbers" /\ call.arg >= 0) =>
       /\ call.kind = "return"
       /\ Len(call.value) = call.arg
       /\ \A i \in 1..Len(call.value) : BLess(call.value[i], Uint32Limit)

\* getRandomNumbers(2) returned the largest and the smallest 32-bit values
C11_Witness ==
  /\ call.fn = "getRandomNumbers"
  /\ call.arg = 2
  /\ call.value = <<BSub(Uint32Limit, <<1>>), <<>>>>

\* C12: a non-positive length passed to generatePassword, or a non-positive
\* wordCount passed to generateWordBasedPassword, is rejected: the call throws
\* the configuration error and returns no password, not even an empty one.
C12_NonPositiveRejected ==
  /\ (call.fn = "generatePassword" /\ options.length <= 0) =>
       /\ call.kind = "throw"
       /\ call.error = "Error: At least one character set must be selected"
  /\ (call.fn = "generateWordBasedPassword" /\ options.wordCount <= 0) =>
       call.kind = "throw"

----------------------------------------------------------------------------
(* Properties of the strength report *)

\* C13: the empty password is reported with entropy 0, score 0, no warning,
\* suggestion or sequence and four crack times of 0, and analysing it does not
\* call the oracle.
C13_EmptyPasswordZeroEntropy ==
  /\ [](pgPassword = <<>> =>
          /\ strength.entropy = ZeroEntropy
          /\ strength.score = 0
          /\ strength.feedback.warning = ""
          /\ strength.feedback.suggestions = <<>>
          /\ strength.sequence = <<>>
          /\ strength.crackTimesSeconds = ZeroCrackTimes)
  /\ [][pgPassword' = <<>> => oracleCalls' = oracleCalls]_vars

\* the field was emptied after a password had been analysed
C13_Witness ==
  /\ pgPassword = <<>>
  /\ oracleCalls > 0
  /\ strength = EmptyStrength

\* C23: generatePassword draws one batch of length values and returns, in draw
\* order, the characters alphabet[raw_i mod alphabetSize]; every value drawn
\* is used, none is redrawn.
C23_CharacterPerRawValue ==
  (call.fn = "generatePassword" /\ call.kind = "return") =>
    \A alphabet \in {assembleChars(options)} :
       /\ call.drawn = options.length
       /\ Len(call.raw) = options.length
       /\ Len(call.value) = options.length
       /\ \A i \in 1..options.length :
            call.value[i] = alphabet[BDivRem(call.raw[i], Len(alphabet)).r + 1]

\* two different values were drawn and map to two different characters
C23_Witness ==
  /\ call.fn = "generatePassword"
  /\ call.kind = "return"
  /\ options.includeLowercase /\ ~options.excludeAmbiguous
  /\ call.raw = <<BNat(11), <<>>>>
  /\ call.value = <<"l", "a">>

\* the class a character belongs to, in the order of assembly
ClassRank(char) ==
  IF char \in Range(LOWERCASE_CHARS) THEN 1
  ELSE IF char \in Range(UPPERCASE_CHARS) THEN 2
  ELSE IF char \in Range(NUMBER_CHARS) THEN 3
  ELSE 4

\* the position of a character in the four classes taken one after another
ClassIndex(char) ==
  LET class == LOWERCASE_CHARS \o UPPERCASE_CHARS \o NUMBER_CHARS \o SYMBOL_CHARS
  IN CHOOSE i \in 1..Len(class) : class[i] = char

\* C24: the assembled alphabet holds exactly the characters of the enabled
\* classes (without the ambiguous ones when excludeAmbiguous is set), the
\* classes in the order lowercase, uppercase, numbers, symbols and every class
\* in its own order; generatePassword throws the configuration error exactly
\* when that alphabet is empty.
C24_AlphabetOrderAndRejection ==
  \A chars \in {assembleChars(options)} :
     /\ Range(chars) = Alphabet(options)
     /\ \A i \in 1..(Len(chars) - 1) :
          /\ ClassRank(chars[i]) <= ClassRank(chars[i + 1])
          /\ ClassIndex(chars[i]) < ClassIndex(chars[i + 1])
     /\ call.fn = "generatePassword" =>
          /\ (call.error = "Error: At least one character set must be selected")
               <=> (Len(chars) = 0)
          /\ options.length >= 0 => ((call.kind = "throw") <=> (Len(chars) = 0))

\* a password drawn from the full alphabet without the ambiguous characters:
\* the value 11 selects "m", because "l" is left out
C24_Witness ==
  /\ call.fn = "generatePassword"
  /\ call.kind = "return"
  /\ options.includeLowercase /\ options.includeUppercase
  /\ options.includeNumbers /\ options.includeSymbols
  /\ options.excludeAmbiguous
  /\ options.length = 1
  /\ call.raw = <<BNat(11)>>
  /\ call.value = <<"m">>

----------------------------------------------------------------------------
(* Properties of the history *)

HistoryHandlers == {"handleGeneratePassword", "handleAddTag", "handleRemoveTag",
                    "handleImportHistory", "handleClearHistory"}

\* C28: after every history operation (generate, add tag, remove tag,
\* import, clear) the history stored under passwordHistory, an absent key
\* read as the empty history, equals the history in memory.
C28_PersistedEqualsMemory ==
  call.fn \in HistoryHandlers => loadHistory(localStorage) = passwordHistory

\* C29: the history in memory never holds more than MAX_HISTORY entries,
\* and after a click on Generate it is the new entry followed by the
\* history the click found, cut after the tenth entry.
C29_HistoryBounded ==
  /\ Len(passwordHistory) <= MAX_HISTORY
  /\ (call.fn = "handleGeneratePassword" /\ call.kind = "return") =>
       /\ passwordHistory # <<>>
       /\ passwordHistory[1].password = call.value
       /\ passwordHistory[1].timestamp = now
       /\ \A i \in 2..Len(passwordHistory) : passwordHistory[i] = call.arg[i - 1]
       /\ Len(passwordHistory) =
            (IF Len(call.arg) + 1 > MAX_HISTORY THEN MAX_HISTORY ELSE Len(call.arg) + 1)

\* a file that is not JSON, or whose version field is not 1
Rejected(file) ==
  \/ ~file.parsable
  \/ Get(file.data, "version") # [defined |-> TRUE, value |-> 1]

\* C30: importing a file that is not parsable JSON, or whose version field
\* is not 1, leaves the history, the favorites and both storage keys as
\* they were.
C30_RejectedImportChangesNothing ==
  [][(call'.fn = "handleImportHistory" /\ Rejected(call'.arg))
       => UNCHANGED histVars]_vars

\* an export of version 2 was offered to a page with a history and a
\* favorite, both stored
C30_Witness ==
  /\ call.fn = "handleImportHistory"
  /\ call.arg.parsable
  /\ Get(call.arg.data, "version") = [defined |-> TRUE, value |-> 2]
  /\ Len(passwordHistory) = MAX_HISTORY
  /\ favorites # <<>>
  /\ getItem(localStorage, "passwordHistory").present
  /\ getItem(localStorage, "passwordFavorites").present

====
